---- MODULE Spec2Model ----
(***************************************************************************)
(* Model of the async helpers of src/src/async.ts: asyncPool (the bounded  *)
(* concurrency runner) and retry (retry with delay).                       *)
(*                                                                         *)
(* asyncPool runs on a single-threaded event loop.  A step of the model is *)
(* one job of that loop: the synchronous call of asyncPool up to its first *)
(* await, the settlement of one worker promise by the environment, or one  *)
(* promise reaction job (the continuation of an executor after its await,  *)
(* the reaction of Promise.all to one executor, the continuation of        *)
(* asyncPool after `await Promise.all`).  Reaction jobs run in FIFO order  *)
(* from the microtask queue.                                               *)
(***************************************************************************)
EXTENDS Integers, Sequences, FiniteSets, TLC

\* ---------------------------------------------------------------- bounds
MaxLen == 3
MaxConcurrency == 3

Item == {"a", "b"}
Value == {"v1", "v2"}
Undefined == "undefined"
None == 0 - 1

\* The item lists tried: items are opaque to asyncPool, which only hands
\* them to fn, so lists whose neighbours differ tell every index apart.
Alternating(n, x, y) == [i \in 1..n |-> IF i % 2 = 1 THEN x ELSE y]
ItemLists == {Alternating(n, x, y) : n \in 0..MaxLen, x, y \in Item}
Concurrencies == (0 - 1)..MaxConcurrency

VARIABLES
    concurrency,      \* asyncPool's first argument
    items,            \* asyncPool's second argument
    results,          \* const results: R[]
    index,            \* let index: the cursor over items
    executors,        \* the promises of the executor() calls and their position
    calls,            \* the worker invocations fn(items[i], i), by index i
    microtasks,       \* the FIFO queue of promise reaction jobs
    all,              \* the promise of Promise.all(executors)
    pool,             \* the promise asyncPool returned to its caller
    claims,           \* history: <<currentIndex, executor>> in claim order
    writes,           \* history: <<slot, executor>> in write order
    firstFailure,     \* history: index of the invocation that rejected first
    pendingAtFailure, \* history: invocations in flight when that one rejected
    settledLate,      \* history: invocations settled after asyncPool rejected
    startedLate,      \* history: invocations started after asyncPool rejected
    attempts,         \* retry: options.attempts
    onError,          \* retry: whether options.onError is given
    attempt,          \* retry: the loop variable
    lastError,        \* retry: let lastError: Error
    retryPc,          \* retry: where the call is suspended
    retried,          \* retry: the promise retry returned to its caller
    trace,            \* retry history: the calls of fn, onError and sleep
    outcomes,         \* retry history: how each call of fn settled, in order
    observerThrew     \* retry history: whether onError has thrown

poolVars == <<concurrency, items, results, index, executors, calls, microtasks,
              all, pool, claims, writes, firstFailure, pendingAtFailure,
              settledLate, startedLate>>

retryVars == <<attempts, onError, attempt, lastError, retryPc, retried, trace,
               outcomes, observerThrew>>

\* withTimeout
VARIABLES
    wtPromise,        \* withTimeout: the wrapped promise
    wtMessage,        \* withTimeout: errorMessage
    wtTimer,          \* withTimeout: the timer behind timeoutId
    wtTimeoutPromise, \* withTimeout: timeoutPromise
    wtFinally,        \* withTimeout: the promise of promise.finally(...)
    wtRace,           \* withTimeout: the promise of Promise.race, returned
    wtJobs,           \* withTimeout: the FIFO queue of promise reaction jobs
    wtFirst,          \* withTimeout history: which event happened first
    wtSettles         \* withTimeout history: settlements of the returned promise

timeoutVars == <<wtPromise, wtMessage, wtTimer, wtTimeoutPromise, wtFinally,
                 wtRace, wtJobs, wtFirst, wtSettles>>

\* asyncSequential
VARIABLES
    seqItems,       \* items
    seqI,           \* i
    seqResults,     \* results
    seqCalls,       \* the invocations of fn, in the order they started
    seqPc,          \* "idle", "awaiting", "resume", "throw" or "done"
    seqPromise      \* the promise asyncSequential returned

sequentialVars == <<seqItems, seqI, seqResults, seqCalls, seqPc,
                    seqPromise>>

\* memoize
VARIABLES
    cache,          \* cache: serialized arguments -> cached result
    memoCalls,      \* number of calls of the memoized function so far
    memoSeen,       \* per key, the number of calls made with it
    memoInvoked,    \* per key, the number of invocations of fn
    memoFirst,      \* per key, the arguments and result of the first call
    memoLast,       \* the last call: arguments, key, outcome, invoked or not
    memoThrew       \* fn has thrown in some call

memoVars == <<cache, memoCalls, memoSeen, memoInvoked, memoFirst,
              memoLast, memoThrew>>

\* once
VARIABLES
    called,          \* called
    result,          \* result
    onceCalls,       \* number of calls of the wrapper so far
    onceInvocations, \* the argument lists fn was invoked with, in order
    onceFirst,       \* the first call: arguments and what fn did
    onceLast         \* the last call: arguments, outcome, invoked or not

onceVars == <<called, result, onceCalls, onceInvocations, onceFirst,
              onceLast>>

\* deepClone
VARIABLES
    cloneInput,     \* obj as it was when deepClone was called
    cloneOriginal,  \* obj as it is now
    cloneOutput,    \* what deepClone returned, as it is now
    clonePc         \* "idle", "cloned" or "mutated"

cloneVars == <<cloneInput, cloneOriginal, cloneOutput, clonePc>>

\* roundTo
VARIABLES
    roundN,         \* n, in hundredths
    roundDecimals,  \* the decimals argument, in halves, or omitted
    roundOutcome,   \* what the call did: threw, or returned a number
    roundPc         \* "idle" or "done"

roundVars == <<roundN, roundDecimals, roundOutcome, roundPc>>

\* objectMap
VARIABLES
    mappedEntries,  \* mappedEntries
    omOutcome,      \* what the call did: threw, or returned an object
    omPc            \* "idle" or "done"

objectMapVars == <<mappedEntries, omOutcome, omPc>>

\* truncate
VARIABLES
    trStr,          \* str, a sequence of characters
    trMaxLength,    \* maxLength
    trEllipsis,     \* the ellipsis argument, or omitted
    trResult,       \* the string returned
    trPc            \* "idle" or "done"

truncateVars == <<trStr, trMaxLength, trEllipsis, trResult, trPc>>

\* shuffle
VARIABLES
    shInput,        \* array as it was when shuffle was called
    shArray,        \* array as it is now
    shResult,       \* result
    shI,            \* i
    shPc            \* "idle", "loop" or "done"

shuffleVars == <<shInput, shArray, shResult, shI, shPc>>

\* formatDuration
VARIABLES
    fdMs,           \* ms
    fdFormat,       \* the format argument: "short", "long" or "omitted"
    fdResult,       \* the string returned, as the sequence of its parts
    fdPc            \* "idle" or "done"

durationVars == <<fdMs, fdFormat, fdResult, fdPc>>

notPoolVars == <<retryVars, timeoutVars, sequentialVars, memoVars, onceVars,
                 cloneVars, roundVars, objectMapVars, truncateVars, shuffleVars,
                 durationVars>>
notRetryVars == <<poolVars, timeoutVars, sequentialVars, memoVars, onceVars,
                  cloneVars, roundVars, objectMapVars, truncateVars, shuffleVars,
                  durationVars>>
notTimeoutVars == <<poolVars, retryVars, sequentialVars, memoVars, onceVars,
                    cloneVars, roundVars, objectMapVars, truncateVars, shuffleVars,
                    durationVars>>
notSequentialVars == <<poolVars, retryVars, timeoutVars, memoVars, onceVars,
                       cloneVars, roundVars, objectMapVars, truncateVars, shuffleVars,
                       durationVars>>
notMemoVars == <<poolVars, retryVars, timeoutVars, sequentialVars, onceVars,
                 cloneVars, roundVars, objectMapVars, truncateVars, shuffleVars,
                 durationVars>>
notOnceVars == <<poolVars, retryVars, timeoutVars, sequentialVars, memoVars,
                 cloneVars, roundVars, objectMapVars, truncateVars, shuffleVars,
                 durationVars>>
notCloneVars == <<poolVars, retryVars, timeoutVars, sequentialVars, memoVars,
                  onceVars, roundVars, objectMapVars, truncateVars, shuffleVars,
                  durationVars>>
notRoundVars == <<poolVars, retryVars, timeoutVars, sequentialVars, memoVars,
                  onceVars, cloneVars, objectMapVars, truncateVars, shuffleVars,
                  durationVars>>
notObjectMapVars == <<poolVars, retryVars, timeoutVars, sequentialVars, memoVars,
                      onceVars, cloneVars, roundVars, truncateVars, shuffleVars,
                      durationVars>>
notTruncateVars == <<poolVars, retryVars, timeoutVars, sequentialVars, memoVars,
                     onceVars, cloneVars, roundVars, objectMapVars, shuffleVars,
                     durationVars>>
notShuffleVars == <<poolVars, retryVars, timeoutVars, sequentialVars, memoVars,
                    onceVars, cloneVars, roundVars, objectMapVars, truncateVars,
                    durationVars>>
notDurationVars == <<poolVars, retryVars, timeoutVars, sequentialVars, memoVars,
                     onceVars, cloneVars, roundVars, objectMapVars, truncateVars,
                     shuffleVars>>

vars == <<poolVars, retryVars, timeoutVars, sequentialVars, memoVars,
          onceVars, cloneVars, roundVars, objectMapVars, truncateVars,
          shuffleVars, durationVars>>

Min(a, b) == IF a < b THEN a ELSE b

\* Array.from({ length: n }): ToLength clamps a negative length to 0.
ToLength(n) == IF n < 0 THEN 0 ELSE n

\* Array.from({ length: Math.min(concurrency, items.length) })
NumExecutorsUnbounded(c, len) == len
NumExecutorsSerial(c, len) == ToLength(Min(c, Min(len, 1)))
NumExecutors(c, len) == ToLength(Min(c, len))

\* while (index < items.length)
HasNextOffByOne(idx, len) == idx < len - 1
HasNext(idx, len) == idx < len

\* index++ : the cursor after the claim
NextIndexSkip(idx) == idx + 2
NextIndex(idx) == idx + 1

\* results[currentIndex] = <awaited value>
StoreResultPush(res, currentIndex, v) == Append(res, v)
StoreResult(res, currentIndex, v) == [res EXCEPT ![currentIndex + 1] = v]

\* `await p` throws in the executor exactly when p is rejected
RethrowsNever(state) == FALSE
Rethrows(state) == state = "rejected"

\* Promise.all rejects on the first rejected executor, whatever the number
\* of executors still awaiting a worker
AllRejectsWhenIdle(allState, awaiting) == allState = "pending" /\ awaiting = 0
AllRejects(allState, awaiting) == allState = "pending"

\* asyncPool has no abort path: a settled Promise.all leaves calls alone
AbortPending(cs) == [i \in DOMAIN cs |->
                       IF cs[i].state = "pending"
                       THEN [cs[i] EXCEPT !.state = "aborted"] ELSE cs[i]]
OnPoolSettled(cs) == cs

NotStarted == [state |-> "unstarted", item |-> "none", arg |-> None,
               value |-> Undefined, by |-> 0]

Job(kind, e) == [kind |-> kind, e |-> e]

\* One pass of the executor's loop head: claim the next index and invoke
\* fn (suspending at the await), or fall out of the loop and fulfil.
ExecutorLoop(e, its, st) ==
    IF HasNext(st.index, Len(its))
    THEN LET currentIndex == st.index IN
         [index     |-> NextIndex(st.index),
          calls     |-> [st.calls EXCEPT ![currentIndex] =
                            [state |-> "pending", item |-> its[currentIndex + 1],
                             arg |-> currentIndex, value |-> Undefined, by |-> e]],
          executors |-> [st.executors EXCEPT ![e] =
                            [state |-> "awaiting", currentIndex |-> currentIndex,
                             reason |-> None]],
          claims    |-> Append(st.claims, <<currentIndex, e>>)]
    ELSE [st EXCEPT !.executors[e] =
                            [state |-> "fulfilled", currentIndex |-> None,
                             reason |-> None]]

\* .map(() => executor()): the executors are started one after the other,
\* each running synchronously up to its first await.
RECURSIVE Launch(_, _, _, _)
Launch(e, n, its, st) ==
    IF e > n THEN st ELSE Launch(e + 1, n, its, ExecutorLoop(e, its, st))

Awaiting(ex) == Cardinality({e \in DOMAIN ex : ex[e].state = "awaiting"})

\* asyncPool(concurrency, items, fn), up to `await Promise.all(executors)`
Call(c, its) ==
    /\ pool.state = "idle"
    /\ LET len == Len(its)
           n   == NumExecutors(c, len)
           st  == Launch(1, n, its,
                         [index |-> 0,
                          calls |-> [i \in 0..(len - 1) |-> NotStarted],
                          executors |-> [e \in 1..n |->
                                           [state |-> "unstarted",
                                            currentIndex |-> None,
                                            reason |-> None]],
                          claims |-> <<>>])
           Settled(e) == st.executors[e].state # "awaiting"
           settled == SelectSeq([k \in 1..n |-> k], Settled)
       IN /\ concurrency' = c
          /\ items' = its
          /\ results' = [i \in 1..len |-> Undefined]
          /\ index' = st.index
          /\ calls' = st.calls
          /\ executors' = st.executors
          /\ claims' = st.claims
          /\ all' = [state |-> IF n = 0 THEN "fulfilled" ELSE "pending",
                     remaining |-> n, reason |-> None]
          /\ microtasks' =
                IF n = 0 THEN <<Job("pool", 0)>>
                ELSE [k \in DOMAIN settled |-> Job("all", settled[k])]
          /\ pool' = [pool EXCEPT !.state = "pending"]
    /\ UNCHANGED <<writes, firstFailure, pendingAtFailure, settledLate,
                   startedLate, notPoolVars>>

\* The environment settles a worker promise: fn's promise for index i is
\* fulfilled with v.  The awaiting executor's continuation is queued.
Fulfil(i, v) ==
    /\ calls[i].state = "pending"
    /\ calls' = [calls EXCEPT ![i] = [@ EXCEPT !.state = "fulfilled", !.value = v]]
    /\ microtasks' = Append(microtasks, Job("executor", calls[i].by))
    /\ settledLate' = IF pool.state = "rejected" THEN settledLate \cup {i}
                      ELSE settledLate
    /\ UNCHANGED <<concurrency, items, results, index, executors, all, pool,
                   claims, writes, firstFailure, pendingAtFailure, startedLate,
                   notPoolVars>>

\* The environment settles a worker promise: fn's promise for index i is
\* rejected; its reason is identified by i.
Reject(i) ==
    /\ calls[i].state = "pending"
    /\ calls' = [calls EXCEPT ![i] = [@ EXCEPT !.state = "rejected"]]
    /\ microtasks' = Append(microtasks, Job("executor", calls[i].by))
    /\ settledLate' = IF pool.state = "rejected" THEN settledLate \cup {i}
                      ELSE settledLate
    /\ firstFailure' = IF firstFailure = None THEN i ELSE firstFailure
    /\ pendingAtFailure' =
          IF firstFailure = None
          THEN {j \in DOMAIN calls : j # i /\ calls[j].state = "pending"}
          ELSE pendingAtFailure
    /\ UNCHANGED <<concurrency, items, results, index, executors, all, pool,
                   claims, writes, startedLate, notPoolVars>>

\* The continuation of executor e after `await fn(...)`: throw out of the
\* executor, or store the value and go round the loop.
ExecutorResume(e) ==
    /\ microtasks # <<>>
    /\ Head(microtasks) = Job("executor", e)
    /\ LET currentIndex == executors[e].currentIndex
           call == calls[currentIndex]
       IN IF Rethrows(call.state)
          THEN /\ executors' = [executors EXCEPT ![e] =
                                  [state |-> "rejected", currentIndex |-> None,
                                   reason |-> currentIndex]]
               /\ microtasks' = Append(Tail(microtasks), Job("all", e))
               /\ UNCHANGED <<results, index, calls, claims, writes, startedLate>>
          ELSE LET st == ExecutorLoop(e, items,
                            [index |-> index, calls |-> calls,
                             executors |-> executors, claims |-> claims])
               IN /\ results' = StoreResult(results, currentIndex, call.value)
                  /\ writes' = Append(writes, <<currentIndex, e>>)
                  /\ index' = st.index
                  /\ calls' = st.calls
                  /\ executors' = st.executors
                  /\ claims' = st.claims
                  /\ microtasks' =
                        IF st.executors[e].state = "fulfilled"
                        THEN Append(Tail(microtasks), Job("all", e))
                        ELSE Tail(microtasks)
                  /\ startedLate' =
                        IF pool.state = "rejected" /\ st.index # index
                        THEN startedLate \cup {index} ELSE startedLate
    /\ UNCHANGED <<concurrency, items, all, pool, firstFailure, pendingAtFailure,
                   settledLate, notPoolVars>>

\* Promise.all's reaction to the settlement of executor e's promise.
PromiseAllReaction(e) ==
    /\ microtasks # <<>>
    /\ Head(microtasks) = Job("all", e)
    /\ IF executors[e].state = "rejected"
       THEN IF AllRejects(all.state, Awaiting(executors))
            THEN /\ all' = [all EXCEPT !.state = "rejected",
                                       !.reason = executors[e].reason]
                 /\ microtasks' = Append(Tail(microtasks), Job("pool", 0))
                 /\ calls' = OnPoolSettled(calls)
            ELSE /\ microtasks' = Tail(microtasks)
                 /\ UNCHANGED <<all, calls>>
       ELSE /\ all' = [all EXCEPT
                         !.remaining = @ - 1,
                         !.state = IF @ = "pending" /\ all.remaining = 1
                                   THEN "fulfilled" ELSE @]
            /\ microtasks' =
                  IF all.state = "pending" /\ all.remaining = 1
                  THEN Append(Tail(microtasks), Job("pool", 0))
                  ELSE Tail(microtasks)
            /\ UNCHANGED calls
    /\ UNCHANGED <<concurrency, items, results, index, executors, pool,
                   claims, writes, firstFailure, pendingAtFailure, settledLate,
                   startedLate, notPoolVars>>

\* asyncPool's continuation after `await Promise.all(executors)`:
\* `return results`, or the rejection thrown out of the await.
PoolResume ==
    /\ microtasks # <<>>
    /\ Head(microtasks) = Job("pool", 0)
    /\ pool' = IF all.state = "fulfilled"
               THEN [state |-> "fulfilled", value |-> results, reason |-> None]
               ELSE [state |-> "rejected", value |-> <<>>, reason |-> all.reason]
    /\ microtasks' = Tail(microtasks)
    /\ UNCHANGED <<concurrency, items, results, index, executors, calls, all,
                   claims, writes, firstFailure, pendingAtFailure, settledLate,
                   startedLate, notPoolVars>>

\* ------------------------------------------------------------------ retry
MaxAttempts == 3

\* A thrown value: an Error object (identified by id) or any other value,
\* with its String() representation as message.
ErrorObject(id, msg) == [isError |-> TRUE, message |-> msg, id |-> id]
Primitive(str) == [isError |-> FALSE, message |-> str, id |-> 0]
Thrown == {ErrorObject(1, "boom"), ErrorObject(2, "bang"), Primitive("oops")}
ObserverException == Primitive("observer failed")
UndefinedValue == [isError |-> FALSE, message |-> "undefined", id |-> None]

\* error instanceof Error ? error : new Error(String(error))
\* (the Error made on attempt k is a fresh object, id 10 + k)
Normalize(error, k) ==
    IF error.isError THEN error ELSE ErrorObject(10 + k, error.message)

\* lastError = <the normalized error>
KeepFirstError(prev, new) == IF prev = UndefinedValue THEN new ELSE prev
KeepError(prev, new) == new

\* return await fn()
ReturnedNothing(v) == Undefined
Returned(v) == v

Outcome(ok, v, error) == [ok |-> ok, value |-> v, error |-> error]

\* attempt <= options.attempts
InLoopAtLeastOnce(k, n) == k <= n \/ k = 1
InLoop(k, n) == k <= n

\* An exception of options.onError leaves the catch block as thrown.
ThrownByObserverNormalized(ex) == Normalize(ex, 0)
ThrownByObserver(ex) == ex

\* if (attempt < options.attempts) await sleep(options.delay)
ShouldSleepAlways(k, n) == k <= n
ShouldSleep(k, n) == k < n

Event(name, k, error) == [ev |-> name, attempt |-> k, error |-> error]

\* The loop head for attempt k: invoke fn and suspend at the await, or
\* leave the loop and `throw lastError!`.
RetryLoop(k, n, err, tr) ==
    IF InLoop(k, n)
    THEN /\ attempt' = k
         /\ retryPc' = "fn"
         /\ trace' = Append(tr, Event("fn", k, UndefinedValue))
         /\ retried' = [state |-> "pending", value |-> Undefined,
                        reason |-> UndefinedValue]
    ELSE /\ attempt' = k
         /\ retryPc' = "done"
         /\ trace' = tr
         /\ retried' = [state |-> "rejected", value |-> Undefined, reason |-> err]

\* retry(fn, { attempts: n, delay, onError }), up to the first await
RetryCall(n, observer) ==
    /\ retryPc = "idle"
    /\ attempts' = n
    /\ onError' = observer
    /\ lastError' = UndefinedValue
    /\ RetryLoop(1, n, UndefinedValue, trace)
    /\ UNCHANGED <<outcomes, observerThrew, notRetryVars>>

\* fn's promise is fulfilled: `return await fn()`
FnFulfil(v) ==
    /\ retryPc = "fn"
    /\ retryPc' = "done"
    /\ retried' = [state |-> "fulfilled", value |-> Returned(v),
                   reason |-> UndefinedValue]
    /\ outcomes' = Append(outcomes, Outcome(TRUE, v, UndefinedValue))
    /\ UNCHANGED <<attempts, onError, attempt, lastError, trace, observerThrew,
                   notRetryVars>>

\* fn's promise is rejected with `error`: the catch block.  The observer,
\* when given, returns or throws; a throw leaves retry at once.
FnReject(error, observerThrows) ==
    /\ retryPc = "fn"
    /\ observerThrows => onError
    /\ LET normalized == Normalize(error, attempt)
           kept == KeepError(lastError, normalized)
           observed == IF onError
                       THEN Append(trace, Event("onError", attempt, kept))
                       ELSE trace
       IN /\ lastError' = kept
          /\ outcomes' = Append(outcomes, Outcome(FALSE, Undefined, error))
          /\ observerThrew' = (observerThrew \/ observerThrows)
          /\ IF observerThrows
             THEN /\ retryPc' = "done"
                  /\ retried' = [state |-> "rejected", value |-> Undefined,
                                 reason |-> ThrownByObserver(ObserverException)]
                  /\ trace' = observed
                  /\ UNCHANGED attempt
             ELSE IF ShouldSleep(attempt, attempts)
             THEN /\ retryPc' = "sleep"
                  /\ trace' = Append(observed, Event("sleep", attempt, UndefinedValue))
                  /\ UNCHANGED <<attempt, retried>>
             ELSE RetryLoop(attempt + 1, attempts, kept, observed)
    /\ UNCHANGED <<attempts, onError, notRetryVars>>

\* sleep's timer fires: attempt++ and the loop head
SleepDone ==
    /\ retryPc = "sleep"
    /\ RetryLoop(attempt + 1, attempts, lastError, trace)
    /\ UNCHANGED <<attempts, onError, lastError, outcomes, observerThrew,
                   notRetryVars>>

\* ------------------------------------------------------------ withTimeout
\* A step is one job of the event loop: the call, the settlement of the
\* wrapped promise, the timer callback (a macrotask: it runs only when no
\* reaction job is queued), or the reaction job at the head of wtJobs.
Message == {"Operation timed out", "Data fetch timed out"}

Reason(kind, msg) == [kind |-> kind, message |-> msg]
NoReason == Reason("none", "")
Rejection == {Reason("rejection", "e1"), Reason("rejection", "e2")}

PendingPromise == [state |-> "pending", value |-> Undefined, reason |-> NoReason]
FulfilledWith(v) == [state |-> "fulfilled", value |-> v, reason |-> NoReason]
RejectedWith(r) == [state |-> "rejected", value |-> Undefined, reason |-> r]

\* The promises withTimeout may be handed: pending, or already settled.
Promises == {PendingPromise} \cup {FulfilledWith(v) : v \in Value}
                \cup {RejectedWith(r) : r \in Rejection}

\* Promise.race settles with the first settled element: later elements
\* find it settled and change nothing.
RaceTakesLast(state) == TRUE
RaceTakes(state) == state = "pending"

\* clearTimeout(timeoutId)
ClearTimeout(timer) == IF timer = "armed" THEN "cleared" ELSE timer

\* withTimeout(promise, ms, errorMessage): setTimeout arms the timer,
\* promise.finally and Promise.race subscribe.
WithTimeoutCall(promise, msg) ==
    /\ wtRace.state = "idle"
    /\ wtPromise' = promise
    /\ wtMessage' = msg
    /\ wtTimer' = "armed"
    /\ wtTimeoutPromise' = PendingPromise
    /\ wtFinally' = PendingPromise
    /\ wtRace' = PendingPromise
    /\ wtJobs' = IF promise.state = "pending" THEN <<>> ELSE <<"finally">>
    /\ wtFirst' = IF promise.state = "pending" THEN "none" ELSE "promise"
    /\ UNCHANGED <<wtSettles, notTimeoutVars>>

\* The environment settles the wrapped promise; the reaction registered
\* by promise.finally is queued.
WrappedSettles(outcome) ==
    /\ wtRace.state # "idle"
    /\ wtPromise.state = "pending"
    /\ outcome.state # "pending"
    /\ wtPromise' = outcome
    /\ wtJobs' = Append(wtJobs, "finally")
    /\ wtFirst' = IF wtFirst = "none" THEN "promise" ELSE wtFirst
    /\ UNCHANGED <<wtMessage, wtTimer, wtTimeoutPromise, wtFinally, wtRace,
                   wtSettles, notTimeoutVars>>

\* The timer callback: reject(new Error(errorMessage)); the reaction that
\* Promise.race registered on timeoutPromise is queued.
TimerFires ==
    /\ wtTimer = "armed"
    /\ wtJobs = <<>>
    /\ wtTimer' = "fired"
    /\ wtTimeoutPromise' = RejectedWith(Reason("Error", wtMessage))
    /\ wtJobs' = <<"raceTimeout">>
    /\ wtFirst' = IF wtFirst = "none" THEN "timer" ELSE wtFirst
    /\ UNCHANGED <<wtPromise, wtMessage, wtFinally, wtRace, wtSettles,
                   notTimeoutVars>>

\* The finally reaction: () => clearTimeout(timeoutId) runs, and the
\* promise of promise.finally(...) starts to adopt the wrapped outcome.
FinallyRuns ==
    /\ wtJobs # <<>>
    /\ Head(wtJobs) = "finally"
    /\ wtTimer' = ClearTimeout(wtTimer)
    /\ wtJobs' = Tail(wtJobs) \o <<"thunk", "thenable">>
    /\ UNCHANGED <<wtPromise, wtMessage, wtTimeoutPromise, wtFinally, wtRace,
                   wtFirst, wtSettles, notTimeoutVars>>

\* The ticks finally takes to pass the outcome on: the value thunk, the
\* job resolving with its promise, the adoption.
FinallyPasses ==
    /\ wtJobs # <<>>
    /\ Head(wtJobs) \in {"thunk", "thenable", "adopt"}
    /\ wtJobs' = IF Head(wtJobs) = "thenable"
                 THEN Append(Tail(wtJobs), "adopt")
                 ELSE IF Head(wtJobs) = "adopt"
                 THEN Append(Tail(wtJobs), "raceFinally")
                 ELSE Tail(wtJobs)
    /\ wtFinally' = IF Head(wtJobs) = "adopt" THEN wtPromise ELSE wtFinally
    /\ UNCHANGED <<wtPromise, wtMessage, wtTimer, wtTimeoutPromise, wtRace,
                   wtFirst, wtSettles, notTimeoutVars>>

\* A reaction of Promise.race to one of its two elements.
RaceReacts ==
    /\ wtJobs # <<>>
    /\ Head(wtJobs) \in {"raceFinally", "raceTimeout"}
    /\ LET element == IF Head(wtJobs) = "raceFinally"
                      THEN wtFinally ELSE wtTimeoutPromise
       IN IF RaceTakes(wtRace.state)
          THEN /\ wtRace' = element
               /\ wtSettles' = wtSettles + 1
          ELSE UNCHANGED <<wtRace, wtSettles>>
    /\ wtJobs' = Tail(wtJobs)
    /\ UNCHANGED <<wtPromise, wtMessage, wtTimer, wtTimeoutPromise, wtFinally,
                   wtFirst, notTimeoutVars>>

\* ------------------------------------------------------------ asyncSequential
\* results.push(value)
PushResultFront(res, v) == <<v>> \o res
PushResult(res, v) == Append(res, v)

\* One invocation fn(items[i], i), pending until the environment settles it.
Invocation(its, i) ==
    [index |-> i, item |-> its[i + 1], state |-> "pending", value |-> Undefined]

\* The for loop from its condition on: the next invocation starts and the
\* function awaits it, or the loop is over and results is returned.
SequentialLoop(its, i, res, cs) ==
    /\ seqI' = i
    /\ seqResults' = res
    /\ IF i < Len(its)
       THEN /\ seqCalls' = Append(cs, Invocation(its, i))
            /\ seqPc' = "awaiting"
            /\ seqPromise' = PendingPromise
       ELSE /\ seqCalls' = cs
            /\ seqPc' = "done"
            /\ seqPromise' = [state |-> "fulfilled", value |-> res,
                              reason |-> NoReason]

\* asyncSequential(items, fn)
SequentialCall(its) ==
    /\ seqPc = "idle"
    /\ seqItems' = its
    /\ SequentialLoop(its, 0, <<>>, <<>>)
    /\ UNCHANGED notSequentialVars

\* The environment fulfils the invocation being awaited.
WorkerFulfils(v) ==
    /\ seqPc = "awaiting"
    /\ seqCalls' = [seqCalls EXCEPT ![Len(seqCalls)] =
                        [@ EXCEPT !.state = "fulfilled", !.value = v]]
    /\ seqPc' = "resume"
    /\ UNCHANGED <<seqItems, seqI, seqResults, seqPromise, notSequentialVars>>

\* The environment rejects the invocation being awaited.
WorkerRejects(r) ==
    /\ seqPc = "awaiting"
    /\ seqCalls' = [seqCalls EXCEPT ![Len(seqCalls)] =
                        [@ EXCEPT !.state = "rejected", !.value = r.message]]
    /\ seqPc' = "throw"
    /\ UNCHANGED <<seqItems, seqI, seqResults, seqPromise, notSequentialVars>>

\* The continuation of the await: push the value, i++, and loop; or, for a
\* rejected invocation, leave the function with its reason.
SequentialResume ==
    \/ /\ seqPc = "resume"
       /\ SequentialLoop(seqItems, seqI + 1,
                         PushResult(seqResults, seqCalls[Len(seqCalls)].value),
                         seqCalls)
       /\ UNCHANGED <<seqItems, notSequentialVars>>
    \/ /\ seqPc = "throw"
       /\ seqPc' = "done"
       /\ seqPromise' = RejectedWith(Reason("rejection",
                                            seqCalls[Len(seqCalls)].value))
       /\ UNCHANGED <<seqItems, seqI, seqResults, seqCalls, notSequentialVars>>

\* ------------------------------------------------------------ memoize
MaxCalls == 3

\* Argument values: a number, a string, NaN, null, and two distinct
\* objects { a: 1 } (ref tells them apart).
Arg(type, v, ref) == [type |-> type, v |-> v, ref |-> ref]
ArgValue == {Arg("number", "1", 0), Arg("string", "1", 0),
             Arg("number", "NaN", 0), Arg("null", "null", 0),
             Arg("object", "a:1", 1), Arg("object", "a:1", 2)}
ArgLists == {<<>>} \cup {<<v>> : v \in ArgValue}

\* JSON.stringify of one value: NaN and null both give null, a string is
\* quoted, an object is serialized by content.
Token(v) ==
    IF v.type = "number" THEN (IF v.v = "NaN" THEN "null" ELSE v.v)
    ELSE IF v.type = "string" THEN "\"" \o v.v \o "\""
    ELSE IF v.type = "object" THEN "{\"a\":1}"
    ELSE "null"

RECURSIVE JoinTokens(_)
JoinTokens(args) ==
    IF args = <<>> THEN <<>>
    ELSE IF Len(args) = 1 THEN <<Token(args[1])>>
    ELSE <<Token(args[1]), ",">> \o JoinTokens(Tail(args))

\* JSON.stringify(args), as the sequence of its tokens
Stringify(args) == <<"[">> \o JoinTokens(args) \o <<"]">>

\* cache.has(key)
CacheHas(c, key) == key \in DOMAIN c

\* cache.set(key, result)
CacheSetNothing(c, key, res) == c
CacheSet(c, key, res) ==
    [k \in DOMAIN c \cup {key} |-> IF k = key THEN res ELSE c[k]]

\* fn(...args) throws before cache.set(key, result) is reached.
CacheAfterThrowSet(c, key) == CacheSet(c, key, Undefined)
CacheAfterThrow(c, key) == c

\* What fn does when invoked: return a value (undefined included) or throw.
FnOutcome == {[ok |-> TRUE, value |-> v] : v \in Value \cup {Undefined}}
                \cup {[ok |-> FALSE, value |-> "thrown"]}

Count(f, key) == IF key \in DOMAIN f THEN f[key] ELSE 0

\* The history kept per key
Noted(f, key, x) == [k \in DOMAIN f \cup {key} |-> IF k = key THEN x ELSE f[k]]

\* One call of the memoized function with args; out is what fn does if it
\* is invoked.
MemoizedCall(args, out) ==
    LET key == Stringify(args)
        hit == CacheHas(cache, key)
    IN /\ memoCalls < MaxCalls
       /\ memoCalls' = memoCalls + 1
       /\ memoSeen' = Noted(memoSeen, key, Count(memoSeen, key) + 1)
       /\ IF hit
          THEN /\ memoLast' = [args |-> args, key |-> key, ok |-> TRUE,
                               value |-> cache[key], invoked |-> FALSE]
               /\ UNCHANGED <<cache, memoInvoked, memoFirst, memoThrew>>
          ELSE /\ memoInvoked' =
                      Noted(memoInvoked, key, Count(memoInvoked, key) + 1)
               /\ memoLast' = [args |-> args, key |-> key, ok |-> out.ok,
                               value |-> out.value, invoked |-> TRUE]
               /\ memoFirst' = IF key \in DOMAIN memoFirst THEN memoFirst
                               ELSE Noted(memoFirst, key,
                                      [args |-> args, ok |-> out.ok,
                                       value |-> out.value])
               /\ memoThrew' = (memoThrew \/ ~out.ok)
               /\ cache' = IF out.ok THEN CacheSet(cache, key, out.value)
                           ELSE CacheAfterThrow(cache, key)
       /\ UNCHANGED notMemoVars

\* ------------------------------------------------------------ once
\* if (!called)
ShouldInvokeAlways(c) == TRUE
ShouldInvoke(c) == ~c

\* called = true comes before fn(...args): it is set whether fn returns
\* or throws.
CalledAfterReturn(ok) == ok
CalledAfter(ok) == TRUE

\* One call of the wrapper with args; out is what fn does if it is
\* invoked. called is set before fn runs, result only when fn returns.
OnceCall(args, out) ==
    /\ onceCalls < MaxCalls
    /\ onceCalls' = onceCalls + 1
    /\ onceFirst' = IF onceCalls = 0
                    THEN [args |-> args, ok |-> out.ok, value |-> out.value]
                    ELSE onceFirst
    /\ IF ShouldInvoke(called)
       THEN /\ called' = CalledAfter(out.ok)
            /\ onceInvocations' = Append(onceInvocations, args)
            /\ result' = IF out.ok THEN out.value ELSE result
            /\ onceLast' = [args |-> args, ok |-> out.ok, value |-> out.value,
                            invoked |-> TRUE]
       ELSE /\ onceLast' = [args |-> args, ok |-> TRUE, value |-> result,
                            invoked |-> FALSE]
            /\ UNCHANGED <<called, result, onceInvocations>>
    /\ UNCHANGED notOnceVars

\* ------------------------------------------------------------ deepClone
\* A value is a tree of nodes [kind, ref, kids, mutated]: kind is what
\* Object.prototype.toString tells apart ("object" for [object Object],
\* "array", "date" for any other object, "primitive"), ref is the node's
\* identity, kids are its own enumerable properties or elements.
Leaves == {[kind |-> k, kids |-> <<>>] : k \in {"primitive", "date"}}
Kids(S) == {<<>>} \cup {<<a>> : a \in S} \cup {<<a, b>> : a, b \in S}
Boxes(S) == {[kind |-> k, kids |-> ks] : k \in {"object", "array"}, ks \in Kids(S)}
Shapes == Leaves \cup Boxes(Leaves \cup Boxes(Leaves))

\* The value of a shape allocated by the caller: the identity of a node
\* is its path from the root.
RECURSIVE Allocated(_, _)
Allocated(shape, path) ==
    [kind |-> shape.kind, ref |-> path, mutated |-> FALSE,
     kids |-> [i \in DOMAIN shape.kids |->
                  Allocated(shape.kids[i], Append(path, i))]]

\* toString(val) === '[object Object]'
isObject(val) == val.kind = "object"

\* Array.isArray(val)
isArray(val) == val.kind = "array"

\* A node allocated by deepClone for the node ref of its input.
Fresh(ref) == <<0>> \o ref

RECURSIVE deepClone(_)
deepClone(obj) ==
    IF ~isObject(obj) THEN obj
    ELSE [kind |-> IF isArray(obj) THEN "array" ELSE "object",
          ref |-> Fresh(obj.ref), mutated |-> FALSE,
          kids |-> [i \in DOMAIN obj.kids |-> deepClone(obj.kids[i])]]

\* The plain objects and arrays reachable from a value.
RECURSIVE Reachable(_)
Reachable(val) ==
    (IF val.kind \in {"object", "array"} THEN {val.ref} ELSE {})
        \cup UNION {Reachable(val.kids[i]) : i \in DOMAIN val.kids}

\* A write to the node ref, seen through every value that holds the node.
RECURSIVE Written(_, _)
Written(val, ref) ==
    [val EXCEPT !.mutated = (@ \/ val.ref = ref),
                !.kids = [i \in DOMAIN val.kids |-> Written(val.kids[i], ref)]]

\* const clone = deepClone(original)
CloneCall(shape) ==
    /\ clonePc = "idle"
    /\ cloneInput' = Allocated(shape, <<>>)
    /\ cloneOriginal' = cloneInput'
    /\ cloneOutput' = deepClone(cloneInput')
    /\ clonePc' = "cloned"
    /\ UNCHANGED notCloneVars

\* The caller writes to a plain object or an array of the clone, as in
\* clone.b.c = 3.
CloneMutated(ref) ==
    /\ clonePc = "cloned"
    /\ ref \in Reachable(cloneOutput)
    /\ cloneOutput' = Written(cloneOutput, ref)
    /\ cloneOriginal' = Written(cloneOriginal, ref)
    /\ clonePc' = "mutated"
    /\ UNCHANGED <<cloneInput, notCloneVars>>

\* ------------------------------------------------------------ roundTo
\* Numbers n are counted in hundredths and decimals in halves, so that
\* 0.5 and 1.5 are among the arguments: a count of halves is an integer
\* number of decimals exactly when it is even.
MaxN == 5
MaxDecimals == 2

Numbers == (0 - MaxN)..MaxN
Given(halves) == [given |-> TRUE, halves |-> halves]
Omitted == [given |-> FALSE, halves |-> 0]
DecimalsArgs ==
    {Given(h) : h \in (0 - 2 * MaxDecimals)..(2 * MaxDecimals)} \cup {Omitted}

\* decimals = 0
DecimalsOrDefault(arg) == IF arg.given THEN arg.halves ELSE 0

\* Number.isInteger(decimals)
IsInteger(halves) == halves % 2 = 0

\* decimals < 0 || Number.isInteger(decimals)
RoundToThrows(halves) == halves < 0 \/ IsInteger(halves)

\* roundTo(n, decimals): the validation error, or the number
\* Math.round((n + Number.EPSILON) * factor) / factor, kept symbolic.
roundTo(n, arg) ==
    LET halves == DecimalsOrDefault(arg)
    IN IF RoundToThrows(halves)
       THEN [threw |-> TRUE, message |-> "decimals must be a non-negative integer",
             n |-> n, halves |-> halves]
       ELSE [threw |-> FALSE, message |-> "", n |-> n, halves |-> halves]

RoundToCall(n, arg) ==
    /\ roundPc = "idle"
    /\ roundN' = n
    /\ roundDecimals' = arg
    /\ roundOutcome' = roundTo(n, arg)
    /\ roundPc' = "done"
    /\ UNCHANGED notRoundVars

\* ------------------------------------------------------------ objectMap
MaxEntries == 3

\* A key fn may return: a number or a string. The number 1 and the
\* string '1' are different values and name the same property.
PropertyKey(type, v) == [type |-> type, v |-> v]
PropertyKeys == {PropertyKey("number", "1"), PropertyKey("string", "1"),
                 PropertyKey("number", "2"), PropertyKey("string", "x")}

\* What fn returns for one entry: undefined, or a pair [key, value].
Dropped == [kept |-> FALSE, key |-> PropertyKey("string", ""), value |-> Undefined]
Pair(k, v) == [kept |-> TRUE, key |-> k, value |-> v]
FnResults == {Dropped} \cup {Pair(k, v) : k \in PropertyKeys, v \in Value}

\* entries.map(([key, value]) => fn(key, value)), one result per entry
RECURSIVE Mappings(_)
Mappings(n) ==
    IF n = 0 THEN {<<>>}
    ELSE LET shorter == Mappings(n - 1)
         IN shorter \cup {Append(m, r) : m \in {x \in shorter : Len(x) = n - 1},
                                          r \in FnResults}

\* .filter(entry => entry !== undefined)
Retained(mapped) == SelectSeq(mapped, LAMBDA r : r.kept)

\* new Set(mappedEntries.map(([k]) => k)): the keys as values
Keys(entries) == {entries[i].key : i \in DOMAIN entries}

\* The property acc[key] names: a number key is converted to a string.
PropertyName(key) == key.v

\* acc[key] = value
Assigned(acc, key, value) ==
    [p \in DOMAIN acc \cup {PropertyName(key)} |->
        IF p = PropertyName(key) THEN value ELSE acc[p]]

\* mappedEntries.reduce(..., {})
RECURSIVE Reduced(_, _)
Reduced(entries, acc) ==
    IF entries = <<>> THEN acc
    ELSE Reduced(Tail(entries),
                 Assigned(acc, Head(entries).key, Head(entries).value))

objectMap(mapped) ==
    LET entries == Retained(mapped)
    IN IF Cardinality(Keys(entries)) # Len(entries)
       THEN [threw |-> TRUE, object |-> <<>>]
       ELSE [threw |-> FALSE, object |-> Reduced(entries, <<>>)]

\* objectMap(obj, fn), fn answering the entries of obj with mapped
ObjectMapCall(mapped) ==
    /\ omPc = "idle"
    /\ mappedEntries' = Retained(mapped)
    /\ omOutcome' = objectMap(mapped)
    /\ omPc' = "done"
    /\ UNCHANGED notObjectMapVars

\* ------------------------------------------------------------ truncate
MaxStr == 4
MaxWidth == 5

\* Strings are sequences of characters.
RECURSIVE Strings(_)
Strings(n) ==
    IF n = 0 THEN {<<>>}
    ELSE LET shorter == Strings(n - 1)
         IN shorter \cup {Append(s, c) : s \in {x \in shorter : Len(x) = n - 1},
                                         c \in {"a", "b"}}

Dots == <<".", ".", ".">>
WithEllipsis(text) == [given |-> TRUE, text |-> text]
NoEllipsis == [given |-> FALSE, text |-> <<>>]
EllipsisArgs == {NoEllipsis, WithEllipsis(<<>>), WithEllipsis(<<"~">>),
                 WithEllipsis(Dots)}

\* ellipsis = '...'
EllipsisOrDefault(arg) == IF arg.given THEN arg.text ELSE Dots

\* str.slice(0, end): a negative end counts from the end of the string,
\* and the end is clamped to 0..str.length.
Slice0(str, end) ==
    LET final == IF end < 0 THEN (IF Len(str) + end < 0 THEN 0 ELSE Len(str) + end)
                 ELSE (IF end > Len(str) THEN Len(str) ELSE end)
    IN SubSeq(str, 1, final)

truncate(str, maxLength, arg) ==
    LET ellipsis == EllipsisOrDefault(arg)
    IN IF Len(str) <= maxLength THEN str
       ELSE Slice0(str, maxLength - Len(ellipsis)) \o ellipsis

TruncateCall(str, maxLength, arg) ==
    /\ trPc = "idle"
    /\ trStr' = str
    /\ trMaxLength' = maxLength
    /\ trEllipsis' = arg
    /\ trResult' = truncate(str, maxLength, arg)
    /\ trPc' = "done"
    /\ UNCHANGED notTruncateVars

\* ------------------------------------------------------------ shuffle
MaxArray == 3

Elements == {"x", "y", "z"}

RECURSIVE Arrays(_)
Arrays(n) ==
    IF n = 0 THEN {<<>>}
    ELSE LET shorter == Arrays(n - 1)
         IN shorter \cup {Append(a, e) : a \in {x \in shorter : Len(x) = n - 1},
                                         e \in Elements}

\* [result[i], result[j]] = [result[j], result[i]], i and j counted from 0
SwappedOneWay(res, i, j) == [res EXCEPT ![i + 1] = res[j + 1]]
Swapped(res, i, j) == [res EXCEPT ![i + 1] = res[j + 1], ![j + 1] = res[i + 1]]

\* The for loop from its condition on.
ShuffleLoop(i) ==
    /\ shI' = i
    /\ shPc' = IF i > 0 THEN "loop" ELSE "done"

\* shuffle(array): const result = [...array]; i = result.length - 1
ShuffleCall(array) ==
    /\ shPc = "idle"
    /\ shInput' = array
    /\ shArray' = array
    /\ shResult' = array
    /\ ShuffleLoop(Len(array) - 1)
    /\ UNCHANGED notShuffleVars

\* One pass of the loop, Math.floor(Math.random() * (i + 1)) being j.
ShuffleStep(j) ==
    /\ shPc = "loop"
    /\ j \in 0..shI
    /\ shResult' = Swapped(shResult, shI, j)
    /\ ShuffleLoop(shI - 1)
    /\ UNCHANGED <<shInput, shArray, notShuffleVars>>

\* ------------------------------------------------------------ formatDuration
MaxDays == 2

timeUnits == <<[unit |-> "day", ms |-> 86400000, short |-> "d"],
               [unit |-> "hour", ms |-> 3600000, short |-> "h"],
               [unit |-> "minute", ms |-> 60000, short |-> "m"],
               [unit |-> "second", ms |-> 1000, short |-> "s"]>>

\* The durations formatted: every unit absent, 1, or at its largest,
\* with and without a rest of milliseconds.
Durations ==
    {d * 86400000 + h * 3600000 + m * 60000 + s * 1000 + r :
        d \in 0..MaxDays, h \in {0, 1, 23}, m \in {0, 1, 59}, s \in {0, 1, 59},
        r \in {0, 1, 999}}
Formats == {"short", "long", "omitted"}

\* format = 'short'
FormatOrDefault(arg) == IF arg = "omitted" THEN "short" ELSE arg

\* One part of the string: `${value}${short}`, or
\* `${value} ${unit}${value !== 1 ? 's' : ''}`; sep is the text between
\* the number and the label.
Part(value, sep, label) == [value |-> value, sep |-> sep, label |-> label]
Formatted(format, value, u) ==
    IF format = "short" THEN Part(value, "", u.short)
    ELSE Part(value, " ", IF value # 1 THEN u.unit \o "s" ELSE u.unit)

\* remaining %= unitMs
RemainingKept(remaining, unitMs) == remaining
Remaining(remaining, unitMs) == remaining % unitMs

\* The for loop over timeUnits from unit k on.
RECURSIVE Parts(_, _, _, _)
Parts(k, remaining, format, parts) ==
    IF k > Len(timeUnits) THEN parts
    ELSE LET u == timeUnits[k]
             value == remaining \div u.ms
         IN IF value > 0
            THEN Parts(k + 1, Remaining(remaining, u.ms), format,
                       Append(parts, Formatted(format, value, u)))
            ELSE Parts(k + 1, remaining, format, parts)

\* parts.join(' '), or '0s'
formatDuration(ms, arg) ==
    LET parts == Parts(1, ms, FormatOrDefault(arg), <<>>)
    IN IF Len(parts) > 0 THEN parts ELSE <<Part(0, "", "s")>>

FormatDurationCall(ms, arg) ==
    /\ fdPc = "idle"
    /\ fdMs' = ms
    /\ fdFormat' = arg
    /\ fdResult' = formatDuration(ms, arg)
    /\ fdPc' = "done"
    /\ UNCHANGED notDurationVars

Init ==
    /\ concurrency = 0
    /\ items = <<>>
    /\ results = <<>>
    /\ index = 0
    /\ executors = <<>>
    /\ calls = <<>>
    /\ microtasks = <<>>
    /\ all = [state |-> "none", remaining |-> 0, reason |-> None]
    /\ pool = [state |-> "idle", value |-> <<>>, reason |-> None]
    /\ claims = <<>>
    /\ writes = <<>>
    /\ firstFailure = None
    /\ pendingAtFailure = {}
    /\ settledLate = {}
    /\ startedLate = {}
    /\ attempts = 0
    /\ onError = FALSE
    /\ attempt = 0
    /\ lastError = UndefinedValue
    /\ retryPc = "idle"
    /\ retried = [state |-> "idle", value |-> Undefined, reason |-> UndefinedValue]
    /\ trace = <<>>
    /\ outcomes = <<>>
    /\ observerThrew = FALSE
    /\ wtPromise = PendingPromise
    /\ wtMessage = ""
    /\ wtTimer = "none"
    /\ wtTimeoutPromise = PendingPromise
    /\ wtFinally = PendingPromise
    /\ wtRace = [state |-> "idle", value |-> Undefined, reason |-> NoReason]
    /\ wtJobs = <<>>
    /\ wtFirst = "none"
    /\ wtSettles = 0
    /\ seqItems = <<>>
    /\ seqI = 0
    /\ seqResults = <<>>
    /\ seqCalls = <<>>
    /\ seqPc = "idle"
    /\ seqPromise = [state |-> "idle", value |-> <<>>, reason |-> NoReason]
    /\ cache = <<>>
    /\ memoCalls = 0
    /\ memoSeen = <<>>
    /\ memoInvoked = <<>>
    /\ memoFirst = <<>>
    /\ memoLast = [args |-> <<>>, key |-> <<>>, ok |-> TRUE,
                   value |-> Undefined, invoked |-> FALSE]
    /\ memoThrew = FALSE
    /\ called = FALSE
    /\ result = Undefined
    /\ onceCalls = 0
    /\ onceInvocations = <<>>
    /\ onceFirst = [args |-> <<>>, ok |-> TRUE, value |-> Undefined]
    /\ onceLast = [args |-> <<>>, ok |-> TRUE, value |-> Undefined,
                   invoked |-> FALSE]
    /\ cloneInput = Allocated([kind |-> "primitive", kids |-> <<>>], <<>>)
    /\ cloneOriginal = cloneInput
    /\ cloneOutput = cloneInput
    /\ clonePc = "idle"
    /\ roundN = 0
    /\ roundDecimals = Omitted
    /\ roundOutcome = [threw |-> FALSE, message |-> "", n |-> 0, halves |-> 0]
    /\ roundPc = "idle"
    /\ mappedEntries = <<>>
    /\ omOutcome = [threw |-> FALSE, object |-> <<>>]
    /\ omPc = "idle"
    /\ trStr = <<>>
    /\ trMaxLength = 0
    /\ trEllipsis = NoEllipsis
    /\ trResult = <<>>
    /\ trPc = "idle"
    /\ shInput = <<>>
    /\ shArray = <<>>
    /\ shResult = <<>>
    /\ shI = 0
    /\ shPc = "idle"
    /\ fdMs = 0
    /\ fdFormat = "omitted"
    /\ fdResult = <<>>
    /\ fdPc = "idle"

Next ==
    \/ \E c \in Concurrencies, its \in ItemLists : Call(c, its)
    \/ \E i \in DOMAIN calls, v \in Value : Fulfil(i, v)
    \/ \E i \in DOMAIN calls : Reject(i)
    \/ \E e \in DOMAIN executors : ExecutorResume(e)
    \/ \E e \in DOMAIN executors : PromiseAllReaction(e)
    \/ PoolResume

Spec == Init /\ [][Next]_vars

NextRetry ==
    \/ \E n \in (0 - 1)..MaxAttempts, observer \in BOOLEAN : RetryCall(n, observer)
    \/ \E v \in Value : FnFulfil(v)
    \/ \E error \in Thrown, observerThrows \in BOOLEAN :
          FnReject(error, observerThrows)
    \/ SleepDone

RetrySpec == Init /\ [][NextRetry]_vars

NextTimeout ==
    \/ \E promise \in Promises, msg \in Message : WithTimeoutCall(promise, msg)
    \/ \E outcome \in Promises : WrappedSettles(outcome)
    \/ TimerFires
    \/ FinallyRuns
    \/ FinallyPasses
    \/ RaceReacts

TimeoutSpec == Init /\ [][NextTimeout]_vars

NextSequential ==
    \/ \E its \in ItemLists : SequentialCall(its)
    \/ \E v \in Value : WorkerFulfils(v)
    \/ \E r \in Rejection : WorkerRejects(r)
    \/ SequentialResume

SequentialSpec == Init /\ [][NextSequential]_vars

NextMemo ==
    \E args \in ArgLists, out \in FnOutcome : MemoizedCall(args, out)

MemoSpec == Init /\ [][NextMemo]_vars

NextOnce ==
    \E args \in ArgLists, out \in FnOutcome : OnceCall(args, out)

OnceSpec == Init /\ [][NextOnce]_vars

NextClone ==
    \/ \E shape \in Shapes : CloneCall(shape)
    \/ \E ref \in Reachable(cloneOutput) : CloneMutated(ref)

CloneSpec == Init /\ [][NextClone]_vars

NextRound ==
    \E n \in Numbers, arg \in DecimalsArgs : RoundToCall(n, arg)

RoundSpec == Init /\ [][NextRound]_vars

NextObjectMap ==
    \E mapped \in Mappings(MaxEntries) : ObjectMapCall(mapped)

ObjectMapSpec == Init /\ [][NextObjectMap]_vars

NextTruncate ==
    \E str \in Strings(MaxStr), maxLength \in 0..MaxWidth, arg \in EllipsisArgs :
        TruncateCall(str, maxLength, arg)

TruncateSpec == Init /\ [][NextTruncate]_vars

NextShuffle ==
    \/ \E array \in Arrays(MaxArray) : ShuffleCall(array)
    \/ \E j \in 0..(MaxArray - 1) : ShuffleStep(j)

ShuffleSpec == Init /\ [][NextShuffle]_vars

NextDuration ==
    \E ms \in Durations, arg \in Formats : FormatDurationCall(ms, arg)

DurationSpec == Init /\ [][NextDuration]_vars

\* ------------------------------------------------------------ properties
InFlight == Cardinality({i \in DOMAIN calls : calls[i].state = "pending"})

AllFulfilled == \A i \in DOMAIN calls : calls[i].state = "fulfilled"

\* C1: with concurrency >= 1, whatever the order in which the worker
\* invocations settle, asyncPool resolves once all of them have resolved,
\* and resolves to an array of length L whose element i is the value that
\* fn(items[i], i) resolved to.
PoolResultsInInputOrder ==
    /\ (concurrency >= 1 /\ pool.state = "fulfilled") =>
          /\ Len(pool.value) = Len(items)
          /\ \A i \in DOMAIN calls :
                /\ calls[i].state = "fulfilled"
                /\ calls[i].item = items[i + 1]
                /\ calls[i].arg = i
                /\ pool.value[i + 1] = calls[i].value
    /\ (concurrency >= 1 /\ pool.state # "idle" /\ AllFulfilled
          /\ microtasks = <<>>) => pool.state = "fulfilled"

\* C1 witness: three items, two executors, slot 1 written before slot 0.
PoolResultsOutOfOrderRun ==
    /\ pool.state = "fulfilled"
    /\ Len(items) = 3
    /\ concurrency = 2
    /\ writes[1][1] = 1
    /\ pool.value[1] # pool.value[2]

\* C2 (as stated): the number of worker invocations started and not yet
\* settled is at most min(concurrency, items.length).
InFlightAtMostMin == InFlight <= Min(concurrency, Len(items))

\* C2 (amended): the number of worker invocations started and not yet
\* settled is at most max(0, min(concurrency, items.length)).
InFlightAtMostExecutors ==
    InFlight <= (IF Min(concurrency, Len(items)) < 0
                 THEN 0 ELSE Min(concurrency, Len(items)))

\* C2 witness: the bound is attained after the cursor is exhausted.
InFlightBoundAttained ==
    /\ concurrency = 2
    /\ Len(items) = 3
    /\ index = 3
    /\ InFlight = 2

\* C3 (as stated): with concurrency >= 1 and no failed invocation, while
\* an index is unclaimed at least one worker invocation is in flight.
NeverIdleWhileUnclaimed ==
    (concurrency >= 1 /\ pool.state # "idle" /\ firstFailure = None
        /\ index < Len(items)) => InFlight >= 1

\* An executor is live when its worker invocation is in flight, or has
\* resolved with the executor's continuation still queued.
Live(e) ==
    /\ executors[e].state = "awaiting"
    /\ \/ calls[executors[e].currentIndex].state = "pending"
       \/ /\ calls[executors[e].currentIndex].state = "fulfilled"
          /\ \E k \in DOMAIN microtasks : microtasks[k] = Job("executor", e)

\* C3 (amended): with concurrency >= 1 and no failed invocation, while an
\* index is unclaimed at least one executor is live: its invocation is in
\* flight, or has resolved and its continuation, which claims the next
\* index, is queued.
SomeExecutorLiveWhileUnclaimed ==
    (concurrency >= 1 /\ pool.state # "idle" /\ firstFailure = None
        /\ index < Len(items)) => \E e \in DOMAIN executors : Live(e)

\* C3 witness: an index is unclaimed and the only invocation has resolved,
\* its executor not yet resumed.
ResolvedNotYetResumed ==
    /\ concurrency >= 1
    /\ firstFailure = None
    /\ index < Len(items)
    /\ InFlight = 0
    /\ \E e \in DOMAIN executors : Live(e)

\* C4: each index is claimed by at most one executor, indices are claimed
\* in increasing order with none skipped, and each result slot is written
\* at most once, by the executor that claimed it.
ClaimsAndWritesExclusive ==
    /\ \A k \in DOMAIN claims : claims[k][1] = k - 1
    /\ index = Len(claims)
    /\ \A k, j \in DOMAIN writes : writes[k][1] = writes[j][1] => k = j
    /\ \A k \in DOMAIN writes : \E c \in DOMAIN claims : claims[c] = writes[k]

\* C4 witness: three slots written, by two different executors.
TwoExecutorsWroteAll ==
    /\ Len(writes) = 3
    /\ \E k, j \in DOMAIN writes : writes[k][2] # writes[j][2]

\* C5: with concurrency <= 0 or an empty item list, asyncPool resolves to
\* an empty array and never invokes the worker function.
EmptyRunGivesEmptyArray ==
    (pool.state = "fulfilled" /\ (concurrency <= 0 \/ Len(items) = 0)) =>
        (pool.value = <<>> /\ claims = <<>>)

\* C6: once a worker invocation has rejected, asyncPool never resolves; it
\* rejects as soon as the queued reactions have run, with no result array,
\* and with the reason of the invocation that rejected first in time.
FirstFailurePropagates ==
    /\ firstFailure # None => pool.state # "fulfilled"
    /\ pool.state = "rejected" =>
          (pool.reason = firstFailure /\ pool.value = <<>>)
    /\ (firstFailure # None /\ microtasks = <<>>) => pool.state = "rejected"

\* C6 witness: invocations 1 and 0 rejected in that order, after a result
\* had been stored.
LaterIndexFailedFirst ==
    /\ pool.state = "rejected"
    /\ firstFailure = 1
    /\ calls[0].state = "rejected"
    /\ writes # <<>>

\* C7 (as stated): asyncPool delivers a failure to its caller only once
\* every invocation in flight at the moment of the failure has settled.
RejectsOnlyAfterInFlightSettled ==
    pool.state = "rejected" =>
        \A j \in pendingAtFailure : calls[j].state # "pending"

\* The reaction jobs that carry the first failure to the caller.
FailureInTransit ==
    \E k \in DOMAIN microtasks :
        microtasks[k] \in {Job("executor", calls[firstFailure].by),
                           Job("all", calls[firstFailure].by),
                           Job("pool", 0)}

\* C7 (amended): asyncPool delivers the first failure to its caller as
\* soon as the reaction jobs queued by that failure have run, whether or
\* not other invocations are still in flight.
RejectsWithoutWaiting ==
    (firstFailure # None /\ ~FailureInTransit) =>
        (pool.state = "rejected" /\ pool.reason = firstFailure)

\* C7 witness: the caller has the failure while an invocation that was in
\* flight at the failure is still pending.
RejectedWithCallPending ==
    /\ pool.state = "rejected"
    /\ \E j \in pendingAtFailure : calls[j].state = "pending"

\* C8: a started worker invocation leaves the pending state only by its
\* own settlement (a step of the environment, which queues the executor's
\* continuation), never by a step of asyncPool, and it can still settle
\* after asyncPool has rejected.
NeverAbandoned ==
    /\ [][\A i \in DOMAIN calls :
            (calls[i].state = "pending" /\ calls'[i].state # "pending") =>
                /\ calls'[i].state \in {"fulfilled", "rejected"}
                /\ Len(microtasks') = Len(microtasks) + 1]_vars
    /\ [](\A i \in DOMAIN calls :
            calls[i].state = "pending" => ENABLED Reject(i))

\* C8 witness: an invocation settled after asyncPool had rejected.
SettledAfterRejection ==
    /\ pool.state = "rejected"
    /\ settledLate # {}

\* The outcome of Promise.all(items.map(fn)) over the same invocations.
PromiseAllOverMap ==
    IF firstFailure # None
    THEN [state |-> "rejected", value |-> <<>>, reason |-> firstFailure]
    ELSE IF AllFulfilled
    THEN [state |-> "fulfilled",
          value |-> [i \in 1..Len(items) |-> calls[i - 1].value],
          reason |-> None]
    ELSE [state |-> "pending", value |-> <<>>, reason |-> None]

\* C9: when concurrency >= items.length, all L invocations are started by
\* the call itself, before any settlement, and asyncPool settles as
\* Promise.all(items.map(fn)) does: same ordered array or same first
\* rejection.
UnlimitedWhenConcurrencyCoversItems ==
    (concurrency >= Len(items) /\ pool.state # "idle") =>
        /\ \A i \in DOMAIN calls : calls[i].state # "unstarted"
        /\ Len(claims) = Len(items)
        /\ pool.state # "pending" => pool = PromiseAllOverMap
        /\ microtasks = <<>> => pool = PromiseAllOverMap

\* C9 witness: more executors allowed than items, fulfilled out of order.
UnlimitedRunFulfilled ==
    /\ concurrency = 3
    /\ Len(items) = 2
    /\ pool.state = "fulfilled"
    /\ writes[1][1] = 1

Events(name) == SelectSeq(trace, LAMBDA ev : ev.ev = name)

\* C10: retry with attempts = N >= 1, an operation that fails every time
\* and an observer that does not throw rejects after exactly N calls of
\* the operation, N calls of the observer with attempts 1..N in order,
\* and N-1 sleeps.
RetryExhaustsAttempts ==
    (retryPc = "done" /\ retried.state = "rejected" /\ attempts >= 1
        /\ onError /\ ~observerThrew) =>
        /\ Len(Events("fn")) = attempts
        /\ Len(Events("onError")) = attempts
        /\ \A k \in 1..attempts : Events("onError")[k].attempt = k
        /\ Len(Events("sleep")) = attempts - 1

\* C10 witness: three failed attempts, observed, then the rejection.
RetryExhaustedThree ==
    /\ retried.state = "rejected"
    /\ attempts = 3
    /\ onError
    /\ ~observerThrew
    /\ Len(Events("fn")) = 3

AllFailed == \A k \in DOMAIN outcomes : ~outcomes[k].ok

\* C11: when the operation fails on invocations 1..K-1 and succeeds on
\* invocation K <= N, retry has invoked it exactly K times (attempts 1..K),
\* stops there, and resolves with the value of the K-th invocation.
RetryStopsAtFirstSuccess ==
    retried.state = "fulfilled" =>
        /\ Len(outcomes) <= attempts
        /\ outcomes[Len(outcomes)].ok
        /\ \A k \in 1..(Len(outcomes) - 1) : ~outcomes[k].ok
        /\ Len(Events("fn")) = Len(outcomes)
        /\ \A k \in 1..Len(outcomes) : Events("fn")[k].attempt = k
        /\ retried.value = outcomes[Len(outcomes)].value
        /\ retryPc = "done"
        /\ ~ENABLED SleepDone

\* C11 witness: two failures, then the third and last attempt succeeds.
RetrySucceededOnThird ==
    /\ retried.state = "fulfilled"
    /\ attempts = 3
    /\ Len(outcomes) = 3
    /\ retried.value = "v2"

\* Every sleep in the trace directly follows failed attempt k < attempts
\* (after its observer call, when there is an observer), and what follows
\* it is the call of fn for attempt k + 1.
SleepsWellPlaced ==
    \A p \in DOMAIN trace :
        trace[p].ev = "sleep" =>
            /\ trace[p].attempt < attempts
            /\ trace[p].attempt <= Len(outcomes)
            /\ ~outcomes[trace[p].attempt].ok
            /\ p > 1
            /\ trace[p - 1].ev = (IF onError THEN "onError" ELSE "fn")
            /\ trace[p - 1].attempt = trace[p].attempt
            /\ p < Len(trace) =>
                  /\ trace[p + 1].ev = "fn"
                  /\ trace[p + 1].attempt = trace[p].attempt + 1

\* C12 (as stated): in every retry run a delay happens only directly after
\* a failed attempt k < attempts and its observer call, before attempt
\* k+1; the operation runs at most N times and the delay at most N-1 times.
DelayAtMostNMinusOne ==
    retryPc # "idle" =>
        /\ SleepsWellPlaced
        /\ Len(Events("fn")) <= attempts
        /\ Len(Events("sleep")) <= attempts - 1

\* C12 (amended): as stated, with the counts bounded by max(N, 0) calls of
\* the operation and max(N - 1, 0) delays.
DelayOnlyBetweenAttempts ==
    retryPc # "idle" =>
        /\ SleepsWellPlaced
        /\ Len(Events("fn")) <= ToLength(attempts)
        /\ Len(Events("sleep")) <= ToLength(attempts - 1)

\* C12 witness: a run without observer that slept twice and is in its
\* third attempt.
SleptTwiceNoObserver ==
    /\ ~onError
    /\ attempts = 3
    /\ Len(Events("sleep")) = 2
    /\ retryPc = "fn"

IsNormalized(thrown, seen) ==
    /\ seen.isError
    /\ seen.message = thrown.message
    /\ thrown.isError => seen = thrown
    /\ ~thrown.isError => seen.id # thrown.id

\* C14: every failure value retry passes to the observer or rejects with
\* is a structured Error: a thrown Error unchanged, any other thrown value
\* as a new Error with the value's string form as message.
FailuresAreStructuredErrors ==
    /\ \A k \in DOMAIN Events("onError") :
          IsNormalized(outcomes[Events("onError")[k].attempt].error,
                       Events("onError")[k].error)
    /\ retried.state = "rejected" =>
          /\ retried.reason.isError
          /\ outcomes # <<>>
          /\ IsNormalized(outcomes[Len(outcomes)].error, retried.reason)

\* C15: the promise withTimeout returns settles exactly once, with the
\* event that happened first: the wrapped promise's outcome when that
\* promise settled first, a rejection with Error(errorMessage) when the
\* timer fired first; a later settlement of the wrapped promise changes
\* nothing.
TimeoutFirstEventWins ==
    /\ wtSettles <= 1
    /\ wtRace.state \in {"fulfilled", "rejected"} =>
          /\ wtSettles = 1
          /\ wtFirst = "promise" => wtRace = wtPromise
          /\ wtFirst = "timer" =>
                wtRace = RejectedWith(Reason("Error", wtMessage))
          /\ wtFirst # "none"
    /\ (wtFirst # "none" /\ wtJobs = <<>>) =>
          wtRace.state \in {"fulfilled", "rejected"}

\* C15 witness: the timer fired first, the wrapped promise was fulfilled
\* later and all reactions have run.
TimedOutThenFulfilled ==
    /\ wtFirst = "timer"
    /\ wtPromise.state = "fulfilled"
    /\ wtJobs = <<>>
    /\ wtRace.state = "rejected"

\* C16: asyncSequential has at most one invocation of fn in flight; the
\* invocations start in index order 0..L-1, each only after the one
\* before it was fulfilled, and the array the promise is fulfilled with
\* holds the values in input order.
SequentialOneAtATime ==
    /\ Cardinality({k \in DOMAIN seqCalls : seqCalls[k].state = "pending"}) <= 1
    /\ \A k \in DOMAIN seqCalls :
          /\ seqCalls[k].index = k - 1
          /\ seqCalls[k].item = seqItems[k]
          /\ k < Len(seqCalls) => seqCalls[k].state = "fulfilled"
    /\ seqPromise.state = "fulfilled" =>
          /\ Len(seqCalls) = Len(seqItems)
          /\ seqPromise.value = [k \in DOMAIN seqCalls |-> seqCalls[k].value]

\* C16 witness: a run over MaxLen items was fulfilled with two different
\* values at different places.
SequentialRunFulfilled ==
    /\ seqPromise.state = "fulfilled"
    /\ Len(seqItems) = MaxLen
    /\ seqPromise.value[1] # seqPromise.value[MaxLen]

\* C17: as long as fn has returned normally, fn was invoked exactly once
\* for each serialization of the arguments that was called, and a later
\* call with the same serialization returns the value of the first such
\* call without invoking fn, whatever its arguments are.
MemoizeOncePerSerialization ==
    ~memoThrew =>
        /\ \A key \in DOMAIN memoSeen : Count(memoInvoked, key) = 1
        /\ memoCalls > 0 =>
              /\ memoLast.invoked = (memoSeen[memoLast.key] = 1)
              /\ memoLast.ok
              /\ memoLast.value = memoFirst[memoLast.key].value

\* C17 witness: a call whose arguments differ from those of the first
\* call with the same serialization was answered from the cache.
MemoizeHitWithOtherArguments ==
    /\ ~memoThrew
    /\ memoCalls > 1
    /\ ~memoLast.invoked
    /\ memoLast.args # memoFirst[memoLast.key].args
    /\ memoLast.value = memoFirst[memoLast.key].value

\* C18: once the wrapper made by once was called, fn has been invoked
\* exactly once, by the first call and with its arguments; every later
\* call returns without invoking fn, and returns the first call's result
\* whatever its own arguments are.
OnceInvokesOnlyFirstCall ==
    onceCalls > 0 =>
        /\ onceInvocations = <<onceFirst.args>>
        /\ onceCalls > 1 =>
              /\ ~onceLast.invoked
              /\ onceLast.ok
              /\ onceFirst.ok => onceLast.value = onceFirst.value

\* C18 witness: a later call with other arguments returned the value of
\* the first call.
OnceLaterCallOtherArguments ==
    /\ onceCalls = MaxCalls
    /\ onceFirst.ok
    /\ onceFirst.value # Undefined
    /\ onceLast.args # onceFirst.args
    /\ onceLast.value = onceFirst.value

\* C19: the result of deepClone shares no plain object and no array with
\* its input, a top-level array and arrays nested in objects included,
\* so that a write to the clone never changes the original.
CloneSharesNoObjectOrArray ==
    clonePc # "idle" =>
        /\ Reachable(cloneOutput) \cap Reachable(cloneInput) = {}
        /\ cloneOriginal = cloneInput

\* C19: a write to an array inside the clone of a plain object has
\* changed the original.
CloneWriteReachedOriginal ==
    /\ clonePc = "mutated"
    /\ cloneInput.kind = "object"
    /\ cloneOriginal # cloneInput

\* C20: roundTo(n, decimals) throws the validation error exactly when
\* decimals is negative or not an integer; for every non-negative
\* integer decimals, the default 0 included, it returns a number.
RoundToThrowsOnlyOnBadDecimals ==
    roundPc = "done" =>
        LET halves == IF roundDecimals.given THEN roundDecimals.halves ELSE 0
        IN roundOutcome.threw = (halves < 0 \/ halves % 2 # 0)

\* C20: roundTo was called with 2 decimals and threw.
RoundToTwoDecimalsThrew ==
    /\ roundPc = "done"
    /\ roundDecimals = Given(4)
    /\ roundOutcome.threw

\* Two retained entries have keys that name the same property.
KeysCollide ==
    \E i, j \in DOMAIN mappedEntries :
        i # j /\ PropertyName(mappedEntries[i].key) = PropertyName(mappedEntries[j].key)

\* C21: objectMap throws the duplicate-key error whenever two retained
\* entries have keys naming the same property of the output (the number
\* 1 and the string '1' included); when it returns, the output has one
\* property per retained entry.
ObjectMapThrowsOnCollidingKeys ==
    omPc = "done" =>
        /\ KeysCollide => omOutcome.threw
        /\ ~omOutcome.threw =>
              Cardinality(DOMAIN omOutcome.object) = Len(mappedEntries)

\* C21: the keys 1 and '1' were both retained, objectMap returned, and
\* one entry has overwritten the other.
ObjectMapOverwrote ==
    /\ omPc = "done"
    /\ ~omOutcome.threw
    /\ Len(mappedEntries) = 2
    /\ Cardinality(DOMAIN omOutcome.object) = 1

\* C22: for every str, every maxLength >= 0 and every ellipsis, truncate
\* returns str unchanged when str.length <= maxLength, and otherwise a
\* string of length at most maxLength, ellipsis included.
TruncateFitsMaxLength ==
    trPc = "done" =>
        IF Len(trStr) <= trMaxLength THEN trResult = trStr
        ELSE Len(trResult) <= trMaxLength

\* C22: a string longer than maxLength was truncated with an ellipsis
\* longer than maxLength, and the result is longer than the input.
TruncateMadeLonger ==
    /\ trPc = "done"
    /\ Len(trStr) > trMaxLength
    /\ trMaxLength < Len(EllipsisOrDefault(trEllipsis))
    /\ Len(trResult) > Len(trStr)

Occurrences(a, e) == Cardinality({k \in DOMAIN a : a[k] = e})

\* C23: whatever the random choices, shuffle returns a permutation of
\* its input (same length, same number of occurrences of every element)
\* and leaves the input array as it was.
ShuffleReturnsPermutation ==
    shPc = "done" =>
        /\ Len(shResult) = Len(shInput)
        /\ \A e \in Elements : Occurrences(shResult, e) = Occurrences(shInput, e)
        /\ shArray = shInput

\* C23 witness: an array of MaxArray elements, not all the same, was
\* returned in another order.
ShuffledThree ==
    /\ shPc = "done"
    /\ Len(shInput) = MaxArray
    /\ shResult # shInput
    /\ shResult[1] = shInput[MaxArray]

\* The place of a label among days, hours, minutes, seconds.
Rank(label) ==
    IF label \in {"d", "day", "days"} THEN 1
    ELSE IF label \in {"h", "hour", "hours"} THEN 2
    ELSE IF label \in {"m", "minute", "minutes"} THEN 3
    ELSE 4

\* The days, hours, minutes and seconds of floor(ms / 1000), the zero
\* ones left out.
Expected(ms) ==
    LET secs == ms \div 1000
        all4 == <<[rank |-> 1, value |-> secs \div 86400],
                  [rank |-> 2, value |-> (secs \div 3600) % 24],
                  [rank |-> 3, value |-> (secs \div 60) % 60],
                  [rank |-> 4, value |-> secs % 60]>>
    IN SelectSeq(all4, LAMBDA p : p.value > 0)

PoolKeepsClaimingAfterFailure ==
    [][\A e \in DOMAIN executors :
          ExecutorResume(e) =>
              LET call == calls[executors[e].currentIndex]
              IN /\ \A f \in DOMAIN executors \ {e} : executors'[f] = executors[f]
                 /\ call.state = "rejected" =>
                       /\ claims' = claims
                       /\ calls' = calls
                       /\ executors'[e].state = "rejected"
                 /\ (call.state = "fulfilled" /\ index < Len(items)) =>
                       /\ claims' = Append(claims, <<index, e>>)
                       /\ calls'[index].state = "pending"
                       /\ executors'[e].state = "awaiting"]_vars

\* C25 witness: asyncPool has rejected and an invocation was started
\* for a new item after that.
StartedAfterRejection ==
    /\ pool.state = "rejected"
    /\ startedLate # {}
    /\ \A i \in startedLate : i # firstFailure /\ calls[i].state # "unstarted"

ObserverThrowEndsRetry ==
    observerThrew =>
        /\ retryPc = "done"
        /\ retried.state = "rejected"
        /\ retried.reason = ObserverException
        /\ ~retried.reason.isError
        /\ trace # <<>>
        /\ trace[Len(trace)].ev = "onError"
        /\ trace[Len(trace)].attempt = attempt
        /\ Len(Events("fn")) = attempt
        /\ Len(Events("sleep")) = attempt - 1

\* C27 witness: the observer threw on the first of three attempts.
ObserverThrewOnFirstOfThree ==
    /\ observerThrew
    /\ attempts = MaxAttempts
    /\ attempt = 1
    /\ retried.state = "rejected"

\* C28: when the first call of a function wrapped by once throws, the
\* wrapper is marked as called all the same: the exception leaves that
\* first call only, and every later call returns undefined without
\* invoking the wrapped function again.
OnceAfterThrowingFirstCall ==
    (onceCalls > 0 /\ ~onceFirst.ok) =>
        /\ called
        /\ result = Undefined
        /\ onceInvocations = <<onceFirst.args>>
        /\ onceCalls = 1 => (onceLast.invoked /\ ~onceLast.ok)
        /\ onceCalls > 1 =>
              /\ ~onceLast.invoked
              /\ onceLast.ok
              /\ onceLast.value = Undefined

\* C28 witness: the first call threw and later calls were made.
OnceCalledAgainAfterThrow ==
    /\ ~onceFirst.ok
    /\ onceCalls = MaxCalls
    /\ onceLast.ok
    /\ onceLast.value = Undefined

\* C29: a call of the memoized function in which fn throws leaves the
\* cache as it was, with no entry for its key, so that every call made
\* with a serialization that has no entry has invoked fn: the call after
\* a throw invokes fn again.
MemoizeThrowLeavesCache ==
    /\ [](/\ (memoCalls > 0 /\ memoLast.invoked /\ ~memoLast.ok) =>
                ~CacheHas(cache, memoLast.key)
          /\ \A key \in DOMAIN memoSeen :
                ~CacheHas(cache, key) =>
                    Count(memoInvoked, key) = memoSeen[key])
    /\ [][(memoCalls' = memoCalls + 1 /\ ~memoLast'.ok) => cache' = cache]_vars

\* C29 witness: fn threw for a key and the next call with that key
\* invoked fn again.
MemoizeInvokedAgainAfterThrow ==
    /\ memoCalls > 1
    /\ memoLast.invoked
    /\ ~memoFirst[memoLast.key].ok
    /\ memoSeen[memoLast.key] > 1
    /\ Count(memoInvoked, memoLast.key) = memoSeen[memoLast.key]

====
